---- MODULE Spec2Model ----
(***************************************************************************)
(* Annotation state of systole's interactive peak editor                   *)
(* (systole/interact/interact.py): the peaks vector, the bad-segment list, *)
(* the validity checkbox, the Correction/Rejection toggle and the          *)
(* corrected-JSON document, with the span-selector handlers on_remove and  *)
(* on_add, Editor.save and Viewer.load_signal / plot_signal.               *)
(***************************************************************************)
EXTENDS Integers, Sequences, FiniteSets, TLC

(* ------------------------------ bounds -------------------------------- *)

\* Number of samples of the signal (len(self.signal)).
N == 3

\* Largest amplitude of the modelled signals.
MaxAmp == 1

(* ---------------------------- value domains --------------------------- *)

Idx == 0 .. (N - 1)

\* Python's None for the bad-segment list (a flat list of ints otherwise).
NoneSegments == << -1 >>

\* The modelled signals: a ramp that saturates at MaxAmp (its maximum
\* is tied over the last samples) and a sawtooth (its maxima are apart).
Ramp == [i \in Idx |-> IF i <= MaxAmp THEN i ELSE MaxAmp]
Sawtooth == [i \in Idx |-> i % (MaxAmp + 1)]
Signals == {Ramp, Sawtooth}

\* Pointer positions on the time axis: the sample positions, one position
\* left of the first sample and one right of the last.
XCoords == (-1) .. N

\* The options of the Viewer's signal_type_ dropdown.
SignalTypes == {"PPG", "ECG", "RESP"}

\* The signal types the saving sessions work on.
SavedTypes == {"ECG", "PPG"}

VARIABLES
    signal,             \* Editor.signal
    signal_type,        \* Editor.signal_type
    peaks,              \* Editor.peaks
    uncorrected_peaks,  \* Editor.uncorrected_peaks
    bad_segments,       \* Editor.bad_segments (flat list, or NoneSegments)
    rejection_,         \* Editor.rejection_.value ("Valid recording" checkbox)
    edition_,           \* Editor.edition_.value
    document,           \* the JSON document at Editor.corrected_json
    last,               \* the last handler that ran, its sample range and outcome
    pre,                \* peaks and bad_segments before the last handler ran
    saving              \* per signal type, a save under way in a process of its own

vars == << signal, signal_type, peaks, uncorrected_peaks, bad_segments,
           rejection_, edition_, document, last, pre, saving >>

(* ------------------------ numpy / python helpers ---------------------- *)

\* self.x_vec: the (strictly increasing) axis value of every sample.
x_vec == [i \in Idx |-> i]

\* np.searchsorted(a, v) (side="left"): the number of elements below v.
searchsorted(a, v) == Cardinality({i \in DOMAIN a : a[i] < v})

\* [(l[i], l[i + 1]) for i in range(0, len(l), 2)]
ToTuples(l) == [k \in 1 .. ((Len(l) + 1) \div 2) |-> << l[2 * k - 1], l[2 * k] >>]

RECURSIVE flatten(_)
\* list(np.array(pairs).flatten())
flatten(pairs) ==
    IF pairs = << >> THEN << >>
    ELSE << pairs[1][1], pairs[1][2] >> \o flatten(Tail(pairs))

RECURSIVE ArgMaxFrom(_, _, _, _)
ArgMaxFrom(sig, i, hi, best) ==
    IF i >= hi THEN best
    ELSE ArgMaxFrom(sig, i + 1, hi, IF sig[i] > sig[best] THEN i ELSE best)

\* np.argmax(sig[lo:hi]) for a non-empty slice: offset of the first maximum.
argmax(sig, lo, hi) == ArgMaxFrom(sig, lo + 1, hi, lo) - lo

(* -------------------- systole.utils.norm_bad_segments ----------------- *)

Min2(a, b) == IF a <= b THEN a ELSE b
Max2(a, b) == IF a >= b THEN a ELSE b

RECURSIVE DropEmpty(_)
\* Zero-width intervals are invalid and dropped.
DropEmpty(pairs) ==
    IF pairs = << >> THEN << >>
    ELSE IF pairs[1][1] < pairs[1][2]
         THEN << pairs[1] >> \o DropEmpty(Tail(pairs))
         ELSE DropEmpty(Tail(pairs))

RECURSIVE InsertByStart(_, _)
InsertByStart(p, sorted) ==
    IF sorted = << >> THEN << p >>
    ELSE IF p[1] < sorted[1][1]
         THEN << p >> \o sorted
         ELSE << sorted[1] >> \o InsertByStart(p, Tail(sorted))

RECURSIVE SortByStart(_)
SortByStart(pairs) ==
    IF pairs = << >> THEN << >>
    ELSE InsertByStart(pairs[1], SortByStart(Tail(pairs)))

RECURSIVE MergeSorted(_, _)
\* Merge pass over intervals sorted by start: an interval that overlaps or
\* touches the last merged one (end_i >= start_j) is absorbed into it.
MergeSorted(acc, rest) ==
    IF rest = << >> THEN acc
    ELSE IF acc # << >> /\ acc[Len(acc)][2] >= rest[1][1]
         THEN MergeSorted(
                  [acc EXCEPT ![Len(acc)] =
                      << acc[Len(acc)][1], Max2(acc[Len(acc)][2], rest[1][2]) >>],
                  Tail(rest))
         ELSE MergeSorted(Append(acc, rest[1]), Tail(rest))

\* The remainders of the bad interval p once the good interval g is carved out.
CarveOne(p, g) ==
    (IF p[1] < g[1] THEN << << p[1], Min2(p[2], g[1]) >> >> ELSE << >>)
    \o (IF g[2] < p[2] THEN << << Max2(p[1], g[2]), p[2] >> >> ELSE << >>)

RECURSIVE Carve(_, _)
Carve(pairs, g) ==
    IF pairs = << >> THEN << >>
    ELSE CarveOne(pairs[1], g) \o Carve(Tail(pairs), g)

RECURSIVE CarveAll(_, _)
CarveAll(pairs, goods) ==
    IF goods = << >> THEN pairs
    ELSE CarveAll(Carve(pairs, goods[1]), Tail(goods))

\* norm_bad_segments(bad_segments, good_segments): carve the good segments
\* out, then sort by start and merge overlapping or touching intervals.
norm_bad_segments(bad, goods) ==
    MergeSorted(<< >>, SortByStart(DropEmpty(CarveAll(DropEmpty(bad), goods))))

(* ------------------------- Editor: construction ----------------------- *)

\* The external detector (ecg_peaks / ppg_peaks / rsp_peaks): the peaks
\* vectors it may return for a signal.
DetectorOutputs(sig) ==
    { [i \in Idx |-> FALSE],
      [i \in Idx |-> sig[i] = MaxAmp /\ (i = 0 \/ sig[i - 1] < MaxAmp)] }

\* Editor.peaks when it is None: no peaks vector.
NonePeaks == << >>

\* A signal_type that is none of "ECG", "PPG", "RESP".
UnsupportedType == "EEG"

\* Editor.find_peaks: how it ends.  With peaks already given no detector is
\* called; otherwise the detector of the signal type is called, a type
\* that has none raises ValueError, and an exception of the detector
\* leaves find_peaks as it is (there is no try block).
find_peaks(type, has_corrected, detector_raises) ==
    IF has_corrected THEN "ok"
    ELSE IF type \notin SignalTypes THEN "ValueError"
    ELSE IF detector_raises THEN "DetectorError"
    ELSE "ok"

\* Editor.__init__ followed by find_peaks: the fields of the new editor.
\* viewer_bad is viewer.bad_segments when a viewer is passed; corrected is
\* the corrected_peaks argument when it is not None; bad_arg is the
\* bad_segments argument, which __init__ never reads; detected is what the
\* detector returns when it is called.  detector_calls counts the calls
\* find_peaks makes to the detector.
Editor__init__(sig, type, has_viewer, viewer_bad, has_corrected, corrected, bad_arg, detected) ==
    [ signal            |-> sig,
      signal_type       |-> type,
      bad_segments      |-> IF has_viewer THEN viewer_bad ELSE << >>,
      peaks             |-> IF has_corrected THEN corrected ELSE detected,
      uncorrected_peaks |-> IF has_corrected THEN corrected ELSE detected,
      rejection_        |-> TRUE,
      edition_          |-> "Correction",
      detector_calls    |-> IF has_corrected THEN 0 ELSE 1 ]

(* --------------------- Editor: span-selector handlers ----------------- *)

\* Each handler body maps the field it edits to its new value and to the
\* exception that ended the handler ("ok" when it returned).

\* Slip: the slice takes its end sample too (peaks[tmin:tmax + 1]).
on_remove_Correction_EndIncluded(p, tmin, tmax) ==
    [ value  |-> [i \in Idx |-> IF tmin <= i /\ i <= tmax THEN FALSE ELSE p[i]],
      result |-> "ok" ]

\* Slip: the slice starts one sample late (peaks[tmin + 1:tmax]).
on_remove_Correction_StartSkipped(p, tmin, tmax) ==
    [ value  |-> [i \in Idx |-> IF tmin < i /\ i < tmax THEN FALSE ELSE p[i]],
      result |-> "ok" ]

\* on_remove, Correction: self.peaks[tmin:tmax] = False
on_remove_Correction(p, tmin, tmax) ==
    [ value  |-> [i \in Idx |-> IF tmin <= i /\ i < tmax THEN FALSE ELSE p[i]],
      result |-> "ok" ]

\* Slip: the new interval is appended after the list was normalised.
on_remove_Rejection_AppendLate(bad, tmin, tmax) ==
    IF bad = NoneSegments
    THEN [ value |-> bad, result |-> "AttributeError" ]
    ELSE [ value  |-> Append(Append(
                          flatten(norm_bad_segments(ToTuples(bad), << >>)),
                          tmin), tmax),
           result |-> "ok" ]

\* Slip: tmax is appended twice, tmin never.
on_remove_Rejection_TmaxTwice(bad, tmin, tmax) ==
    IF bad = NoneSegments
    THEN [ value |-> bad, result |-> "AttributeError" ]
    ELSE [ value  |-> flatten(norm_bad_segments(
                          ToTuples(Append(Append(bad, tmax), tmax)), << >>)),
           result |-> "ok" ]

\* Slip: the list is not normalised after the append.
on_remove_Rejection_NoNorm(bad, tmin, tmax) ==
    IF bad = NoneSegments
    THEN [ value |-> bad, result |-> "AttributeError" ]
    ELSE [ value |-> Append(Append(bad, tmin), tmax), result |-> "ok" ]

\* on_remove, Rejection: append tmin and tmax, pair up, normalise, flatten.
on_remove_Rejection(bad, tmin, tmax) ==
    IF bad = NoneSegments
    THEN \* None.append(...) raises before anything is assigned
         [ value |-> bad, result |-> "AttributeError" ]
    ELSE [ value  |-> flatten(norm_bad_segments(
                          ToTuples(Append(Append(bad, tmin), tmax)), << >>)),
           result |-> "ok" ]

\* Slip: the offset of the slice is not added back (peaks[np.argmax(...)]).
on_add_Correction_NoOffset(p, sig, tmin, tmax) ==
    IF tmin >= tmax
    THEN [ value |-> p, result |-> "ValueError" ]
    ELSE [ value  |-> [p EXCEPT ![argmax(sig, tmin, tmax)] = TRUE],
           result |-> "ok" ]

\* Slip: an empty slice is taken to have its maximum at offset 0.
on_add_Correction_EmptyAccepted(p, sig, tmin, tmax) ==
    IF tmin >= tmax
    THEN [ value  |-> IF tmin \in Idx THEN [p EXCEPT ![tmin] = TRUE] ELSE p,
           result |-> "ok" ]
    ELSE [ value  |-> [p EXCEPT ![tmin + argmax(sig, tmin, tmax)] = TRUE],
           result |-> "ok" ]

\* on_add, Correction: self.peaks[tmin + np.argmax(self.signal[tmin:tmax])] = True
on_add_Correction(p, sig, tmin, tmax) ==
    IF tmin >= tmax
    THEN \* np.argmax of an empty slice raises ValueError
         [ value |-> p, result |-> "ValueError" ]
    ELSE [ value  |-> [p EXCEPT ![tmin + argmax(sig, tmin, tmax)] = TRUE],
           result |-> "ok" ]

\* Slip: good_segments is not passed to norm_bad_segments.
on_add_Rejection_NoGood(bad, tmin, tmax) ==
    IF bad = NoneSegments
    THEN [ value |-> bad, result |-> "TypeError" ]
    ELSE [ value  |-> flatten(norm_bad_segments(ToTuples(bad), << >>)),
           result |-> "ok" ]

\* Mutant of on_add_Rejection: the carved range takes in the sample at
\* tmax.
on_add_Rejection_EndIncluded(bad, tmin, tmax) ==
    IF bad = NoneSegments
    THEN [ value |-> bad, result |-> "TypeError" ]
    ELSE [ value  |-> flatten(norm_bad_segments(ToTuples(bad),
                                                << << tmin, tmax + 1 >> >>)),
           result |-> "ok" ]

\* on_add, Rejection: carve (tmin, tmax) out of the bad segments.
on_add_Rejection(bad, tmin, tmax) ==
    IF bad = NoneSegments
    THEN \* len(None) raises before anything is assigned
         [ value |-> bad, result |-> "TypeError" ]
    ELSE [ value  |-> flatten(norm_bad_segments(ToTuples(bad),
                                                << << tmin, tmax >> >>)),
           result |-> "ok" ]

\* The editor fields an edit can touch, as they are before a handler runs.
Before ==
    [ peaks        |-> peaks,
      bad_segments |-> bad_segments,
      rejection_   |-> rejection_,
      document     |-> document ]

Gestures == {"on_remove", "on_add"}

\* The record of a handler run: the handler, the axis range it was given
\* and its outcome.
Ran(op, xmin, xmax, result) ==
    [op |-> op, xmin |-> xmin, xmax |-> xmax, result |-> result]

\* Mutant of peaks_copy: uncorrected_peaks is the peaks array itself, not a
\* copy, so it follows every write into peaks.
peaks_copy_Alias(u, p) == p

\* find_peaks sets uncorrected_peaks = self.peaks.copy(): an array of its
\* own.  u is uncorrected_peaks before a handler writes into peaks, p is
\* peaks after the write; the copy is as it was.
peaks_copy(u, p) == u

\* Mutant of on_remove: the handler does not read the edition_ buttons and
\* always edits the peaks.
on_remove_AlwaysCorrection(xmin, xmax) ==
    LET tmin == searchsorted(x_vec, xmin)
        tmax == searchsorted(x_vec, xmax)
        c == on_remove_Correction(peaks, tmin, tmax)
    IN  /\ pre' = Before
        /\ UNCHANGED << signal, signal_type, uncorrected_peaks, rejection_,
                        edition_, document, bad_segments, saving >>
        /\ peaks' = c.value
        /\ last' = Ran("on_remove", xmin, xmax, c.result)

\* Editor.on_remove(xmin, xmax): the primary (left button) span gesture.
on_remove(xmin, xmax) ==
    LET tmin == searchsorted(x_vec, xmin)
        tmax == searchsorted(x_vec, xmax)
        c == on_remove_Correction(peaks, tmin, tmax)
        r == on_remove_Rejection(bad_segments, tmin, tmax)
    IN  /\ pre' = Before
        /\ UNCHANGED << signal, signal_type, rejection_, edition_, document, saving >>
        /\ IF edition_ = "Correction"
           THEN /\ peaks' = c.value
                /\ last' = Ran("on_remove", xmin, xmax, c.result)
                /\ UNCHANGED bad_segments
           ELSE /\ bad_segments' = r.value
                /\ last' = Ran("on_remove", xmin, xmax, r.result)
                /\ UNCHANGED peaks
        /\ uncorrected_peaks' = peaks_copy(uncorrected_peaks, peaks')

\* Editor.on_add(xmin, xmax): the secondary (right button) span gesture.
on_add(xmin, xmax) ==
    LET tmin == searchsorted(x_vec, xmin)
        tmax == searchsorted(x_vec, xmax)
        c == on_add_Correction(peaks, signal, tmin, tmax)
        r == on_add_Rejection(bad_segments, tmin, tmax)
    IN  /\ pre' = Before
        /\ UNCHANGED << signal, signal_type, rejection_, edition_, document, saving >>
        /\ IF edition_ = "Correction"
           THEN /\ peaks' = c.value
                /\ last' = Ran("on_add", xmin, xmax, c.result)
                /\ UNCHANGED bad_segments
           ELSE /\ bad_segments' = r.value
                /\ last' = Ran("on_add", xmin, xmax, r.result)
                /\ UNCHANGED peaks
        /\ uncorrected_peaks' = peaks_copy(uncorrected_peaks, peaks')

\* The user picks an option of the edition_ toggle buttons.
select_edition(m) ==
    /\ edition_' = m
    /\ last' = Ran("edition_", 0, 0, "ok")
    /\ pre' = Before
    /\ UNCHANGED << signal, signal_type, peaks, uncorrected_peaks,
                    bad_segments, rejection_, document, saving >>

\* Mutant of check_rejection: unticking the checkbox also empties the list
\* of bad segments.
check_rejection_ClearsSegments(b) ==
    /\ rejection_' = b
    /\ bad_segments' = IF b THEN bad_segments ELSE << >>
    /\ last' = Ran("rejection_", 0, 0, "ok")
    /\ pre' = Before
    /\ UNCHANGED << signal, signal_type, peaks, uncorrected_peaks,
                    edition_, document, saving >>

\* The user ticks or unticks the rejection_ checkbox.
check_rejection(b) ==
    /\ rejection_' = b
    /\ last' = Ran("rejection_", 0, 0, "ok")
    /\ pre' = Before
    /\ UNCHANGED << signal, signal_type, peaks, uncorrected_peaks,
                    bad_segments, edition_, document, saving >>

\* The keys on_key is given in the model: the two quit the handler tests
\* for among "ctrl+q" and "super+d", the two arrows, and one other key.
Keys == {"ctrl+q", "left", "right", "a"}

\* Mutant of on_key: the arrow keys step through the edition_ options.
on_key_ArrowsSwitchMode(key) ==
    /\ edition_' = IF key \in {"left", "right"}
                   THEN (IF edition_ = "Correction" THEN "Rejection"
                                                    ELSE "Correction")
                   ELSE edition_
    /\ last' = Ran("on_key", 0, 0, "ok")
    /\ pre' = Before
    /\ UNCHANGED << signal, signal_type, peaks, uncorrected_peaks,
                    bad_segments, rejection_, document, saving >>

\* Editor.on_key(event): "ctrl+q" and "super+d" close the figure, "left"
\* and "right" move the limits of the x axis, any other key does nothing.
\* The figure and its axis limits are not part of the editor's annotation
\* state; no field of it is assigned.
on_key(key) ==
    /\ last' = Ran("on_key", 0, 0, "ok")
    /\ pre' = Before
    /\ UNCHANGED << signal, signal_type, peaks, uncorrected_peaks,
                    bad_segments, rejection_, edition_, document, saving >>

(* ------------------------------ documents ----------------------------- *)

\* The corrected JSON document: whether the file exists and, when it does,
\* its blocks by lower-cased signal type.  A block holds "valid",
\* "corrected_peaks" (a list of sample indices) and "bad_segments" (a flat
\* list, or NoneSegments for null).

\* No file at corrected_json.
NoFile == [exists |-> FALSE, blocks |-> << >>]

\* No save is under way: per signal type, a session that has read nothing.
\* A session holds its position in save ("idle", "read" once the document
\* is loaded into metadata, "done" once it is written), the document it
\* read, and the fields of its editor that save writes.
NoSaves ==
    [ t \in SavedTypes |->
        [ pc |-> "idle", read |-> NoFile, peaks |-> [i \in Idx |-> FALSE],
          bad_segments |-> << >>, rejection_ |-> TRUE ] ]

\* str.lower() on the signal types.
lower(t) ==
    CASE t = "ECG" -> "ecg"
      [] t = "PPG" -> "ppg"
      [] t = "RESP" -> "resp"

RECURSIVE WhereFrom(_, _)
WhereFrom(p, i) ==
    IF i >= N THEN << >>
    ELSE (IF p[i] THEN << i >> ELSE << >>) \o WhereFrom(p, i + 1)

\* np.where(p)[0].tolist(): the indices at which p is true, ascending.
\* np.where(None) is the nonzero of a 0-d array: the empty index array on
\* the NumPy builds that accept it.
where(p) == IF p = NonePeaks THEN << >> ELSE WhereFrom(p, 0)

\* How np.where(p) ends: on a 0-d condition (p is None) it returns on the
\* NumPy builds that only warn and raises ValueError on those that do not
\* allow nonzero on 0-d arrays.
where_outcomes(p) == IF p = NonePeaks THEN {"ok", "ValueError"} ELSE {"ok"}

\* corrected_peaks = np.zeros(len(signal), dtype=bool); corrected_peaks[indices] = True
zeros_set(indices) ==
    [i \in Idx |-> \E k \in 1 .. Len(indices) : indices[k] = i]

\* Mutant of save_bad_segments: an empty list is stored as it is, not as
\* null.
save_bad_segments_EmptyList(bad) ==
    IF bad = NoneSegments THEN NoneSegments ELSE bad

\* Editor.save: what is stored under "bad_segments".
save_bad_segments(bad) ==
    IF bad = NoneSegments \/ bad = << >> THEN NoneSegments ELSE bad

\* Editor.save: the block built from the editor's fields.
corrected_info(p, bad, valid) ==
    [ valid           |-> valid,
      corrected_peaks |-> where(p),
      bad_segments    |-> save_bad_segments(bad) ]

\* d[key] = block on a dict.
dict_set(blocks, key, block) ==
    [k \in (DOMAIN blocks) \cup {key} |-> IF k = key THEN block ELSE blocks[k]]

\* Slip: the existing document is not read, metadata starts empty.
save_document_Fresh(doc, type, p, bad, valid) ==
    [ exists |-> TRUE,
      blocks |-> dict_set(<< >>, lower(type), corrected_info(p, bad, valid)) ]

\* Editor.save: the document written, from the document found at the path.
save_document(doc, type, p, bad, valid) ==
    LET metadata == IF doc.exists THEN doc.blocks ELSE << >>
    IN  [ exists |-> TRUE,
          blocks |-> dict_set(metadata, lower(type), corrected_info(p, bad, valid)) ]

\* The record of a save, of a plot_signal or of a construction: the signal
\* type it was run for, its outcome and the calls made to the detector;
\* reload tells that the signal type loaded is the one the editor saved in
\* the step before.
RanIO(op, type, result, reload, calls) ==
    [ op |-> op, xmin |-> 0, xmax |-> 0, result |-> result, reload |-> reload,
      type |-> type, detector_calls |-> calls ]

\* Editor.save()
save ==
    \E np_where \in where_outcomes(peaks) :
    /\ document' = IF np_where = "ok"
                   THEN save_document(document, signal_type, peaks,
                                      bad_segments, rejection_)
                   ELSE document
    /\ last' = RanIO("save", signal_type, np_where, FALSE, 0)
    /\ pre' = Before
    /\ UNCHANGED << signal, signal_type, peaks, uncorrected_peaks,
                    bad_segments, rejection_, edition_, saving >>

\* The column of the recording that holds the signal of a type.
Recording(t) == IF t = "PPG" THEN Sawtooth ELSE Ramp

\* Viewer.load_signal: the outcome of reading the corrected JSON for a
\* signal type, with the viewer's corrected_peaks and bad_segments.
load_signal(doc, t) ==
    IF ~doc.exists
    THEN [ result |-> "ok", has_corrected |-> FALSE,
           corrected_peaks |-> [i \in Idx |-> FALSE],
           bad_segments |-> NoneSegments ]
    ELSE IF lower(t) \notin DOMAIN doc.blocks
    THEN \* json_data[...] raises KeyError
         [ result |-> "KeyError", has_corrected |-> FALSE,
           corrected_peaks |-> [i \in Idx |-> FALSE],
           bad_segments |-> NoneSegments ]
    ELSE IF doc.blocks[lower(t)].corrected_peaks = << >>
    THEN \* np.array([]) is a float array: indexing with it raises IndexError
         [ result |-> "IndexError", has_corrected |-> TRUE,
           corrected_peaks |-> [i \in Idx |-> FALSE],
           bad_segments |-> doc.blocks[lower(t)].bad_segments ]
    ELSE [ result |-> "ok", has_corrected |-> TRUE,
           corrected_peaks |-> zeros_set(doc.blocks[lower(t)].corrected_peaks),
           bad_segments |-> doc.blocks[lower(t)].bad_segments ]

\* Viewer.plot_signal after the signal type t is selected: load_signal, then
\* a new Editor; an exception in load_signal leaves the editor in place.
plot_signal(t) ==
    LET v == load_signal(document, t)
        reload == last.op = "save" /\ signal_type = t
    IN  /\ pre' = Before
        /\ UNCHANGED << document, saving >>
        /\ IF v.result # "ok"
           THEN /\ last' = RanIO("plot_signal", t, v.result, reload, 0)
                /\ UNCHANGED << signal, signal_type, peaks, uncorrected_peaks,
                                bad_segments, rejection_, edition_ >>
           ELSE \E detected \in DetectorOutputs(Recording(t)) :
                  LET e == Editor__init__(Recording(t), t, TRUE, v.bad_segments,
                                          v.has_corrected, v.corrected_peaks,
                                          v.bad_segments, detected)
                  IN  /\ last' = RanIO("plot_signal", t, "ok", reload,
                                       e.detector_calls)
                      /\ signal' = e.signal
                      /\ signal_type' = e.signal_type
                      /\ peaks' = e.peaks
                      /\ uncorrected_peaks' = e.uncorrected_peaks
                      /\ bad_segments' = e.bad_segments
                      /\ rejection_' = e.rejection_
                      /\ edition_' = e.edition_

(* --------------------- specification: editing session ----------------- *)

Constructed == Ran("__init__", 0, 0, "ok")

\* An editor built on a signal with no corrected JSON on disk: directly
\* (no viewer, bad_segments = []) or by a Viewer (bad_segments = None).
Init ==
    \E sig \in Signals, has_viewer \in BOOLEAN :
      \E detected \in DetectorOutputs(sig) :
        LET e == Editor__init__(sig, "ECG", has_viewer, NoneSegments,
                                FALSE, detected, NoneSegments, detected)
        IN  /\ signal = e.signal
            /\ signal_type = e.signal_type
            /\ peaks = e.peaks
            /\ uncorrected_peaks = e.uncorrected_peaks
            /\ bad_segments = e.bad_segments
            /\ rejection_ = e.rejection_
            /\ edition_ = e.edition_
            /\ document = NoFile
            /\ last = Constructed
            /\ pre = Before
            /\ saving = NoSaves

Next ==
    \/ \E xmin \in XCoords, xmax \in XCoords : xmin <= xmax /\ on_remove(xmin, xmax)
    \/ \E xmin \in XCoords, xmax \in XCoords : xmin <= xmax /\ on_add(xmin, xmax)
    \/ \E m \in {"Correction", "Rejection"} : select_edition(m)
    \/ \E b \in BOOLEAN : check_rejection(b)
    \/ \E key \in Keys : on_key(key)

Spec == Init /\ [][Next]_vars

\* Editor(signal, sfreq, signal_type=t, corrected_json=path): an editor
\* built directly on the recording's signal of type t, without a Viewer
\* and without corrected_peaks.
new_editor(t) ==
    \E detected \in DetectorOutputs(Recording(t)) :
      LET e == Editor__init__(Recording(t), t, FALSE, NoneSegments,
                              FALSE, detected, NoneSegments, detected)
      IN  /\ signal' = e.signal
          /\ signal_type' = e.signal_type
          /\ peaks' = e.peaks
          /\ uncorrected_peaks' = e.uncorrected_peaks
          /\ bad_segments' = e.bad_segments
          /\ rejection_' = e.rejection_
          /\ edition_' = e.edition_
          /\ last' = RanIO("Editor", t, "ok", FALSE, e.detector_calls)
          /\ pre' = Before
          /\ UNCHANGED << document, saving >>

\* Editor(signal, sfreq, signal_type=t, corrected_json=path,
\*        corrected_peaks=..., bad_segments=...): an editor built directly,
\* without a Viewer, on the peaks and the bad segments of the block the
\* document holds for t.
new_editor_from(t) ==
    /\ document.exists
    /\ lower(t) \in DOMAIN document.blocks
    /\ LET block == document.blocks[lower(t)]
           e == Editor__init__(Recording(t), t, FALSE, NoneSegments,
                               TRUE, zeros_set(block.corrected_peaks),
                               block.bad_segments, [i \in Idx |-> FALSE])
       IN  /\ signal' = e.signal
           /\ signal_type' = e.signal_type
           /\ peaks' = e.peaks
           /\ uncorrected_peaks' = e.uncorrected_peaks
           /\ bad_segments' = e.bad_segments
           /\ rejection_' = e.rejection_
           /\ edition_' = e.edition_
           /\ last' = RanIO("Editor_from", t, "ok", FALSE, e.detector_calls)
           /\ pre' = Before
           /\ UNCHANGED << document, saving >>

(* ------------------ specification: saving and loading ----------------- *)

RECURSIVE SegmentsFrom(_)
\* The flat lists of separated non-empty intervals with starts from lo on.
SegmentsFrom(lo) ==
    {<< >>} \cup
    UNION { UNION { { << a, b >> \o rest : rest \in SegmentsFrom(b + 1) } :
                    b \in (a + 1) .. N } :
            a \in lo .. (N - 1) }

\* The bad-segment lists an editing session can leave.
SegmentLists == SegmentsFrom(0)

\* An editor of the recording, built on a peaks vector passed as
\* corrected_peaks, after an editing session (any peaks vector, any
\* separated bad-segment list or None, either checkbox value), with no
\* corrected JSON on disk yet.
InitPersist ==
    \E type \in SavedTypes :
      \E p \in [Idx -> BOOLEAN], bad \in SegmentLists \cup {NoneSegments},
         valid \in BOOLEAN :
        /\ signal = Recording(type)
        /\ signal_type = type
        /\ peaks = p
        /\ uncorrected_peaks = p
        /\ bad_segments = bad
        /\ rejection_ = valid
        /\ edition_ = "Correction"
        /\ document = NoFile
        /\ last = Constructed
        /\ pre = Before
        /\ saving = NoSaves

NextPersist ==
    \/ save
    \/ \E t \in SavedTypes : plot_signal(t)
    \/ \E t \in SavedTypes : new_editor(t)
    \/ \E t \in SavedTypes : new_editor_from(t)

SpecPersist == InitPersist /\ [][NextPersist]_vars

\* What is at the path once open(path, "w") has emptied the file and
\* json.dump has not run to its end: an empty or cut-off text, which is not
\* a JSON document.
Truncated == [exists |-> TRUE, blocks |-> << >>, partial |-> TRUE]

IsPartial(doc) == "partial" \in DOMAIN doc

\* The steps of Editor.save at which the file system can fail: the
\* json.load of the existing file, the open(path, "w") and the json.dump.
Faults == {"none", "load", "open", "dump"}

\* Editor.save() with the file system failing at the step fault.  save has
\* no try block: the exception of the failing call leaves save at once.  A
\* file that is not a JSON document makes json.load raise by itself.
save_io(fault) ==
    LET load_raises == document.exists /\ (fault = "load" \/ IsPartial(document))
        result == IF load_raises THEN "JSONDecodeError"
                  ELSE IF fault \in {"open", "dump"} THEN "OSError"
                  ELSE "ok"
    IN  /\ document' = IF load_raises \/ fault = "open" THEN document
                       ELSE IF fault = "dump" THEN Truncated
                       ELSE save_document(document, signal_type, peaks,
                                          bad_segments, rejection_)
        /\ last' = RanIO("save", signal_type, result, FALSE, 0)
        /\ pre' = Before
        /\ UNCHANGED << signal, signal_type, peaks, uncorrected_peaks,
                        bad_segments, rejection_, edition_, saving >>

\* Editor(signal, sfreq, signal_type=t, corrected_json=path) built directly
\* when find_peaks raises: the exception leaves __init__, no editor is
\* returned and the session keeps the editor it had.
new_editor_raises(t, detector_raises) ==
    /\ find_peaks(t, FALSE, detector_raises) # "ok"
    /\ last' = RanIO("Editor", t, find_peaks(t, FALSE, detector_raises), FALSE,
                     IF t \in SignalTypes THEN 1 ELSE 0)
    /\ pre' = Before
    /\ UNCHANGED << signal, signal_type, peaks, uncorrected_peaks,
                    bad_segments, rejection_, edition_, document, saving >>

NextFault ==
    \/ \E fault \in Faults : save_io(fault)
    \/ \E t \in SavedTypes : new_editor(t)
    \/ \E t \in SavedTypes \cup {UnsupportedType}, detector_raises \in BOOLEAN :
          new_editor_raises(t, detector_raises)

\* The editors of InitPersist, with a file system and a detector that can
\* fail.
SpecFault == InitPersist /\ [][NextFault]_vars

\* Editor.signal when it is None: no signal.
NoneSignal == << >>

\* Viewer.plot_signal for the signal type t when the recording's column of
\* that type holds only NaN: load_signal reads the corrected JSON as ever,
\* then sets input_signal, corrected_peaks and bad_segments to None; the
\* Editor is built on them, and with no signal it does not call find_peaks:
\* peaks stays None and uncorrected_peaks is never set.
plot_signal_nan(t) ==
    LET v == load_signal(document, t)
    IN  /\ pre' = Before
        /\ UNCHANGED << document, saving >>
        /\ last' = RanIO("plot_signal", t, v.result, FALSE, 0)
        /\ IF v.result # "ok"
           THEN UNCHANGED << signal, signal_type, peaks, uncorrected_peaks,
                             bad_segments, rejection_, edition_ >>
           ELSE /\ signal' = NoneSignal
                /\ signal_type' = t
                /\ peaks' = NonePeaks
                /\ uncorrected_peaks' = NonePeaks
                /\ bad_segments' = NoneSegments
                /\ rejection_' = TRUE
                /\ edition_' = "Correction"

NextInvalid ==
    \/ save
    \/ \E t \in SavedTypes : plot_signal_nan(t)
    \/ \E t \in SavedTypes : new_editor(t)

\* The editors of InitPersist, on a recording of which a column can hold
\* only NaN.
SpecInvalid == InitPersist /\ [][NextInvalid]_vars

\* Two editors, one per signal type of SavedTypes, each in a process of its
\* own, save to the same corrected_json.  Editor.save holds no lock on the
\* file and writes it in place: the other process can run between the
\* json.load that fills metadata and the open(..., "w") that writes it.

\* Editor.save, first half: the document at the path is loaded into
\* metadata (an empty dictionary when there is no file).
save_read(t) ==
    /\ saving[t].pc = "idle"
    /\ saving' = [saving EXCEPT ![t].pc = "read", ![t].read = document]
    /\ last' = RanIO("save_read", t, "ok", FALSE, 0)
    /\ pre' = Before
    /\ UNCHANGED << signal, signal_type, peaks, uncorrected_peaks,
                    bad_segments, rejection_, edition_, document >>

\* Editor.save, second half: the editor's block is set in metadata and
\* metadata is dumped over the file.
save_write(t) ==
    /\ saving[t].pc = "read"
    /\ document' = save_document(saving[t].read, t, saving[t].peaks,
                                 saving[t].bad_segments, saving[t].rejection_)
    /\ saving' = [saving EXCEPT ![t].pc = "done"]
    /\ last' = RanIO("save_write", t, "ok", FALSE, 0)
    /\ pre' = Before
    /\ UNCHANGED << signal, signal_type, peaks, uncorrected_peaks,
                    bad_segments, rejection_, edition_ >>

\* A document written earlier by an editor of the respiration signal.
RespDocument ==
    save_document(NoFile, "RESP", [i \in Idx |-> i = 0], << >>, TRUE)

\* The two sessions are about to save: each editor holds any peaks vector;
\* the path holds no file or the respiration block.  The editor variables
\* are those of the ECG session.
InitConcurrent ==
    \E p \in [Idx -> BOOLEAN], q \in [Idx -> BOOLEAN],
       bad \in {<< >>, << 0, 1 >>}, doc \in {NoFile, RespDocument} :
        /\ saving = [ t \in SavedTypes |->
                        [ pc |-> "idle", read |-> NoFile,
                          peaks |-> IF t = "ECG" THEN p ELSE q,
                          bad_segments |-> bad, rejection_ |-> TRUE ] ]
        /\ signal = Recording("ECG")
        /\ signal_type = "ECG"
        /\ peaks = p
        /\ uncorrected_peaks = p
        /\ bad_segments = bad
        /\ rejection_ = TRUE
        /\ edition_ = "Correction"
        /\ document = doc
        /\ last = Constructed
        /\ pre = Before

NextConcurrent ==
    \/ \E t \in SavedTypes : save_read(t)
    \/ \E t \in SavedTypes : save_write(t)

SpecConcurrent == InitConcurrent /\ [][NextConcurrent]_vars

(* ------------------------- reading a state ---------------------------- *)

\* The sample range the last gesture worked on.
Tmin == searchsorted(x_vec, last.xmin)
Tmax == searchsorted(x_vec, last.xmax)

\* The last handler was the named gesture, run in the named mode.
Did(op, mode) == last.op = op /\ edition_ = mode

\* The sample indices a flat bad-segment list covers.
Covered(flat) ==
    UNION { (flat[2 * k - 1]) .. (flat[2 * k] - 1) : k \in 1 .. (Len(flat) \div 2) }

\* Sorted by start, consecutive intervals neither overlapping nor touching.
Separated(flat) ==
    \A k \in 1 .. ((Len(flat) \div 2) - 1) :
        /\ flat[2 * k - 1] < flat[2 * k + 1]
        /\ flat[2 * k] < flat[2 * k + 1]

\* No interval of the list is empty.
NonEmptyIntervals(flat) ==
    \A k \in 1 .. (Len(flat) \div 2) : flat[2 * k - 1] < flat[2 * k]

(* ----------------------------- properties ------------------------------ *)

\* C1: from an empty bad-segment set, after any sequence of mark_bad and
\* unmark_bad gestures the bad-segment list is sorted by start and any two
\* consecutive intervals satisfy end_1 < start_2.
C1_SortedSeparated ==
    bad_segments # NoneSegments =>
        /\ Len(bad_segments) % 2 = 0
        /\ Separated(bad_segments)

\* Two separate intervals are held after a Rejection gesture.
C1_Witness ==
    /\ last.op \in Gestures
    /\ edition_ = "Rejection"
    /\ last.result = "ok"
    /\ Len(bad_segments) = 4

\* C2: mark_bad([s,e)) with s < e merges what overlaps or touches: the
\* indices covered afterwards are those covered before united with [s,e),
\* held as separated non-empty intervals (one spanning interval for every
\* run of overlapping or touching ones).
C2_MarkBadMerges ==
    (Did("on_remove", "Rejection") /\ pre.bad_segments # NoneSegments /\ Tmin < Tmax) =>
        /\ last.result = "ok"
        /\ Covered(bad_segments) = Covered(pre.bad_segments) \cup (Tmin .. (Tmax - 1))
        /\ Separated(bad_segments)
        /\ NonEmptyIntervals(bad_segments)

\* Marking [1,3) on {[0,2)} gave the single interval [0,3).
C2_Witness ==
    /\ Did("on_remove", "Rejection")
    /\ pre.bad_segments = << 0, 2 >>
    /\ Tmin = 1 /\ Tmax = 3
    /\ bad_segments = << 0, 3 >>

\* C3: unmark_bad([s,e)) carves the good range out: the indices covered
\* afterwards are those covered before minus [s,e), held as separated
\* non-empty intervals (covered intervals deleted, overlapping ones
\* truncated, a straddling one split in two).
C3_UnmarkBadCarves ==
    (Did("on_add", "Rejection") /\ pre.bad_segments # NoneSegments) =>
        /\ last.result = "ok"
        /\ Covered(bad_segments) = Covered(pre.bad_segments) \ (Tmin .. (Tmax - 1))
        /\ Separated(bad_segments)
        /\ NonEmptyIntervals(bad_segments)

\* Unmarking [1,2) on {[0,3)} split it into [0,1) and [2,3).
C3_Witness ==
    /\ Did("on_add", "Rejection")
    /\ pre.bad_segments = << 0, 3 >>
    /\ Tmin = 1 /\ Tmax = 2
    /\ bad_segments = << 0, 1, 2, 3 >>

\* C4: mark_bad is idempotent: once mark_bad has run on an interval,
\* running it again on the same interval leaves the bad-segment list as it is.
C4_MarkBadIdempotent ==
    (Did("on_remove", "Rejection") /\ last.result = "ok") =>
        on_remove_Rejection(bad_segments, Tmin, Tmax)
            = [value |-> bad_segments, result |-> "ok"]

\* mark_bad has run on a non-empty interval next to another interval.
C4_Witness ==
    /\ Did("on_remove", "Rejection")
    /\ last.result = "ok"
    /\ Tmin < Tmax
    /\ Len(bad_segments) = 4
    /\ bad_segments # pre.bad_segments

\* C5 (as stated): for every valid index i and every peaks vector,
\* insert_peak(i) followed by remove_peaks([i,i+1)) restores the peaks
\* vector to what it was before the insert.
C5_InsertRemoveRestores ==
    (Did("on_add", "Correction") /\ last.result = "ok" /\ Tmax = Tmin + 1) =>
        on_remove_Correction(peaks, Tmin, Tmax)
            = [value |-> pre.peaks, result |-> "ok"]

\* C5 (amended): for every valid index i at which the peaks vector is
\* false, insert_peak(i) followed by remove_peaks([i,i+1)) restores the
\* peaks vector to what it was before the insert.
C5_InsertRemoveRestoresNewPeak ==
    (/\ Did("on_add", "Correction")
     /\ last.result = "ok"
     /\ Tmax = Tmin + 1
     /\ ~pre.peaks[Tmin]) =>
        on_remove_Correction(peaks, Tmin, Tmax)
            = [value |-> pre.peaks, result |-> "ok"]

\* A peak was inserted at a sample that had none, next to another peak.
C5_Witness ==
    /\ Did("on_add", "Correction")
    /\ last.result = "ok"
    /\ Tmax = Tmin + 1
    /\ ~pre.peaks[Tmin]
    /\ peaks[Tmin]
    /\ Tmax \in Idx
    /\ peaks[Tmax]

\* m is the first sample of maximum amplitude in lo .. hi - 1.
FirstMax(m, lo, hi) ==
    /\ m \in lo .. (hi - 1)
    /\ \A j \in lo .. (hi - 1) :
          /\ signal[j] <= signal[m]
          /\ (j < m => signal[j] < signal[m])

\* C6: insert_strongest_peak([s,e)) with s < e sets peaks to true at the
\* first sample of maximum amplitude within [s,e) and leaves every other
\* sample of the peaks vector unchanged.
C6_InsertStrongestPeak ==
    (Did("on_add", "Correction") /\ Tmin < Tmax) =>
        /\ last.result = "ok"
        /\ \E m \in Idx :
              /\ FirstMax(m, Tmin, Tmax)
              /\ peaks = [pre.peaks EXCEPT ![m] = TRUE]

\* A peak was inserted on a tied maximum that is not the start of the range.
C6_Witness ==
    /\ Did("on_add", "Correction")
    /\ last.result = "ok"
    /\ \E m \in Idx, j \in Idx :
          /\ Tmin < m /\ m < j /\ j < Tmax
          /\ signal[j] = signal[m]
          /\ peaks[m] /\ ~pre.peaks[m]
          /\ ~peaks[j]

\* C7: insert_strongest_peak on an empty range (also one lying past an end
\* of the signal) is rejected with an error and leaves the peaks, the bad
\* segments and the validity flag unchanged.
C7_EmptyRangeRejected ==
    (Did("on_add", "Correction") /\ Tmin = Tmax) =>
        /\ last.result = "ValueError"
        /\ peaks = pre.peaks
        /\ bad_segments = pre.bad_segments
        /\ rejection_ = pre.rejection_

\* A selection right of the last sample was rejected; the editor holds peaks.
C7_Witness ==
    /\ Did("on_add", "Correction")
    /\ last.xmin > x_vec[N - 1]
    /\ last.result = "ValueError"
    /\ \E i \in Idx : peaks[i]

\* C8: remove_peaks([s,e)) sets peaks[i] to false for every i of [s,e)
\* that is in [0,N), leaves every other sample unchanged, and succeeds
\* (changing nothing) on an empty range.
C8_RemovePeaksFrame ==
    Did("on_remove", "Correction") =>
        /\ last.result = "ok"
        /\ peaks = [i \in Idx |-> IF last.xmin <= x_vec[i] /\ x_vec[i] < last.xmax
                                  THEN FALSE
                                  ELSE pre.peaks[i]]

\* A range starting left of the first sample removed a peak and kept another.
C8_Witness ==
    /\ Did("on_remove", "Correction")
    /\ last.xmin < x_vec[0]
    /\ \E i \in Idx, j \in Idx :
          /\ pre.peaks[i] /\ ~peaks[i]
          /\ peaks[j]

\* C9 (as stated): when plot_signal loads the signal type the editor has
\* just saved, the load succeeds and the new editor holds the same peaks
\* and the same bad-segment list as the saved one, whatever the saved state.
C9_SaveLoadRoundTrip ==
    (last.op = "plot_signal" /\ last.reload) =>
        /\ last.result = "ok"
        /\ peaks = pre.peaks
        /\ bad_segments = pre.bad_segments

\* C10: save replaces only the block of the editor's signal type: every
\* other block of the document found at the path is in the document
\* written, unchanged, and no further block appears.
C10_SaveKeepsOtherBlocks ==
    last.op = "save" =>
        /\ last.result = "ok"
        /\ document.exists
        /\ DOMAIN document.blocks
             = (DOMAIN pre.document.blocks) \cup {lower(signal_type)}
        /\ \A u \in DOMAIN pre.document.blocks :
              u # lower(signal_type) => document.blocks[u] = pre.document.blocks[u]

\* "ppg" was saved into a document that held an "ecg" block with peaks and
\* bad segments, and no "ppg" block.
C10_Witness ==
    /\ last.op = "save"
    /\ signal_type = "PPG"
    /\ pre.document.exists
    /\ DOMAIN pre.document.blocks = {"ecg"}
    /\ pre.document.blocks["ecg"].corrected_peaks # << >>
    /\ pre.document.blocks["ecg"].bad_segments # NoneSegments
    /\ DOMAIN document.blocks = {"ecg", "ppg"}

\* The document doc holds a block for the signal type t: a prior record.
HasRecord(doc, t) == doc.exists /\ lower(t) \in DOMAIN doc.blocks

\* C11: loading a signal type whose block the document at the path does not
\* hold, or loading when there is no file at the path, raises no exception:
\* the load ends with no prior annotation and the editor of that signal
\* type is built on the detector's peaks.
C11_AbsentBlockNoPriorAnnotation ==
    (last.op = "plot_signal" /\ ~HasRecord(pre.document, last.type)) =>
        /\ last.result = "ok"
        /\ signal_type = last.type
        /\ last.detector_calls = 1

\* C12: when the document holds a record for the signal type (here a record
\* with at least one peak), the editor built from it, by the Viewer's load
\* or directly from the record's peaks and bad segments passed as
\* corrected_peaks and bad_segments, starts with the record's peaks, bad
\* segments and valid flag, with uncorrected_peaks equal to those peaks, and
\* without a call to the detector.
C12_PriorRecordRestored ==
    (last.op \in {"plot_signal", "Editor_from"}
        /\ HasRecord(pre.document, last.type)
        /\ pre.document.blocks[lower(last.type)].corrected_peaks # << >>) =>
        LET block == pre.document.blocks[lower(last.type)]
        IN  /\ last.result = "ok"
            /\ signal_type = last.type
            /\ peaks = zeros_set(block.corrected_peaks)
            /\ uncorrected_peaks = peaks
            /\ bad_segments = block.bad_segments
            /\ rejection_ = block.valid
            /\ last.detector_calls = 0

\* C13: when there is no record for the signal type, building the editor
\* (through the Viewer or directly) calls the detector exactly once and
\* starts with the detector's peaks, uncorrected_peaks equal to them, an
\* empty list of bad segments (a list, not None) and the checkbox ticked.
C13_NoRecordDetectsOnce ==
    (last.op \in {"plot_signal", "Editor"}
        /\ ~HasRecord(pre.document, last.type)) =>
        /\ last.result = "ok"
        /\ signal_type = last.type
        /\ last.detector_calls = 1
        /\ peaks \in DetectorOutputs(signal)
        /\ uncorrected_peaks = peaks
        /\ bad_segments = << >>
        /\ rejection_ = TRUE

\* The operations that build a new editor.
Constructions == {"plot_signal", "Editor", "Editor_from"}

\* C14: uncorrected_peaks is fixed when the editor is built: no gesture in
\* either mode, no change of the checkbox or of the mode, no key and no save
\* changes it.
C14_UncorrectedNeverChanges ==
    [][last'.op \notin Constructions => uncorrected_peaks' = uncorrected_peaks]_vars

\* A Correction gesture has changed peaks, which now differs from
\* uncorrected_peaks.
C14_Witness ==
    /\ last.op \in Gestures
    /\ edition_ = "Correction"
    /\ peaks # pre.peaks
    /\ peaks # uncorrected_peaks

\* C15: a change of the rejection_ checkbox changes nothing but the
\* checkbox: peaks, bad segments, uncorrected_peaks and the mode stay; and
\* no gesture, in either mode, changes the checkbox.
C15_ValidityIndependent ==
    [][/\ last'.op = "rejection_" =>
            UNCHANGED << peaks, bad_segments, uncorrected_peaks, edition_,
                         signal, signal_type >>
       /\ last'.op \in Gestures => rejection_' = rejection_]_vars

\* The checkbox was unticked in Rejection mode on an editor that has a peak
\* and a bad segment.
C15_Witness ==
    /\ last.op = "rejection_"
    /\ pre.rejection_
    /\ ~rejection_
    /\ edition_ = "Rejection"
    /\ bad_segments \notin {<< >>, NoneSegments}
    /\ \E i \in Idx : peaks[i]

\* C16: in every reachable state every bad segment [start, end) has
\* 0 <= start < end <= N: none is empty and none leaves the signal.
C16_IntervalsWithinSignal ==
    bad_segments # NoneSegments =>
        \A k \in 1 .. Len(ToTuples(bad_segments)) :
            LET seg == ToTuples(bad_segments)[k]
            IN  0 <= seg[1] /\ seg[1] < seg[2] /\ seg[2] <= N

\* A zero-width range was marked on a non-empty list of bad segments, away
\* from every segment of it.
C16_Witness ==
    /\ Did("on_remove", "Rejection")
    /\ last.result = "ok"
    /\ Tmin = Tmax
    /\ pre.bad_segments # << >>
    /\ \A k \in 1 .. Len(ToTuples(pre.bad_segments)) :
          ToTuples(pre.bad_segments)[k][1] # Tmin
          /\ ToTuples(pre.bad_segments)[k][2] # Tmin
    /\ Tmin \notin Covered(pre.bad_segments)

\* C17: in Rejection mode a gesture over a zero-width range (tmin = tmax)
\* leaves the bad segments as they were, whether it marks or unmarks.
C17_ZeroWidthNoOp ==
    (last.op \in Gestures /\ edition_ = "Rejection" /\ Tmin = Tmax
        /\ pre.bad_segments # NoneSegments) =>
        /\ last.result = "ok"
        /\ bad_segments = pre.bad_segments

\* A zero-width range strictly inside a bad segment was unmarked.
C17_Witness ==
    /\ Did("on_add", "Rejection")
    /\ Tmin = Tmax
    /\ pre.bad_segments # NoneSegments
    /\ \E k \in 1 .. Len(ToTuples(pre.bad_segments)) :
          ToTuples(pre.bad_segments)[k][1] < Tmin
          /\ Tmin < ToTuples(pre.bad_segments)[k][2]

\* C18: in Correction mode the primary gesture removes peaks and the
\* secondary inserts one, and neither changes the bad segments; in
\* Rejection mode the primary gesture marks a bad segment and the secondary
\* unmarks, and neither changes the peaks.
C18_GestureDispatch ==
    last.op \in Gestures =>
        IF edition_ = "Correction"
        THEN /\ bad_segments = pre.bad_segments
             /\ peaks = IF last.op = "on_remove"
                        THEN on_remove_Correction(pre.peaks, Tmin, Tmax).value
                        ELSE on_add_Correction(pre.peaks, signal, Tmin, Tmax).value
        ELSE /\ peaks = pre.peaks
             /\ bad_segments
                  = IF last.op = "on_remove"
                    THEN on_remove_Rejection(pre.bad_segments, Tmin, Tmax).value
                    ELSE on_add_Rejection(pre.bad_segments, Tmin, Tmax).value

\* In Rejection mode the primary gesture marked a range that holds a peak:
\* the range is bad and the peak is still there.
C18_Witness ==
    /\ Did("on_remove", "Rejection")
    /\ last.result = "ok"
    /\ bad_segments # pre.bad_segments
    /\ \E i \in Idx : Tmin <= i /\ i < Tmax /\ peaks[i] /\ i \in Covered(bad_segments)

\* C19: the mode starts as Correction and changes only when the user picks
\* an option of the edition_ buttons: no gesture, no change of the
\* checkbox, no key and no save changes it; and in every state each of the
\* two modes can be picked, so neither is terminal.
C19_ModeOnlyByUser ==
    /\ edition_ = "Correction"
    /\ [][edition_' # edition_ => last'.op = "edition_"]_vars
    /\ [](\A m \in {"Correction", "Rejection"} : ENABLED select_edition(m))

\* A key was pressed in Rejection mode, after the mode was picked, and the
\* mode is still Rejection.
C19_Witness ==
    /\ last.op = "on_key"
    /\ edition_ = "Rejection"

\* C20: when the two sessions have both saved, whatever the order in which
\* their reads and writes of the file ran, the document holds the block of
\* each session as that session wrote it.
C20_ConcurrentSavesKeepBoth ==
    (\A t \in SavedTypes : saving[t].pc = "done") =>
        \A t \in SavedTypes :
            /\ HasRecord(document, t)
            /\ document.blocks[lower(t)]
                 = corrected_info(saving[t].peaks, saving[t].bad_segments,
                                  saving[t].rejection_)

\* C21: a save that fails, at the reading of the existing document, at the
\* opening of the file or during the writing, leaves at the path either the
\* whole document that was there before or the whole new one, never an
\* empty or cut-off one.
C21_SaveAllOrNothing ==
    (last.op = "save" /\ last.result # "ok") =>
        \/ document = pre.document
        \/ document = save_document(pre.document, signal_type, peaks,
                                    bad_segments, rejection_)

\* C22: in the document a save has written, the block of the editor's
\* signal type holds under corrected_peaks the strictly ascending list of
\* exactly the indices at which peaks is true, and under bad_segments null
\* when the editor has no bad segment, and otherwise the editor's list: not
\* empty, of even length, ascending, its pairs not overlapping.
C22_SavedBlockFormat ==
    (last.op = "save" /\ last.result = "ok") =>
        LET block == document.blocks[lower(signal_type)]
            cp == block.corrected_peaks
            bs == block.bad_segments
        IN  /\ \A k \in 1 .. (Len(cp) - 1) : cp[k] < cp[k + 1]
            /\ {cp[k] : k \in 1 .. Len(cp)} = {i \in Idx : peaks[i]}
            /\ IF bad_segments \in {<< >>, NoneSegments}
               THEN bs = NoneSegments
               ELSE /\ bs = bad_segments
                    /\ Len(bs) > 0
                    /\ Len(bs) % 2 = 0
                    /\ NonEmptyIntervals(bs)
                    /\ \A k \in 1 .. ((Len(bs) \div 2) - 1) : bs[2 * k] <= bs[2 * k + 1]

\* An editor with two peaks or more and two bad segments has saved.
C22_Witness ==
    /\ last.op = "save"
    /\ Len(document.blocks[lower(signal_type)].corrected_peaks) >= 2
    /\ Len(bad_segments) = 4
    /\ document.blocks[lower(signal_type)].bad_segments = bad_segments

\* C23: in Rejection mode a gesture with a bound outside the signal (below
\* 0 or above N; here one whose range is not empty) is reported and leaves
\* the bad segments as they were: the bound is not brought into [0, N]
\* silently; and a gesture that fails leaves peaks and bad segments as they
\* were.
C23_OutOfRangeReported ==
    /\ (last.op \in Gestures /\ edition_ = "Rejection"
          /\ (last.xmin < 0 \/ last.xmax > N) /\ last.xmin < last.xmax
          /\ Tmin < Tmax) =>
            /\ last.result # "ok"
            /\ bad_segments = pre.bad_segments
    /\ (last.op \in Gestures /\ last.result # "ok") =>
            /\ peaks = pre.peaks
            /\ bad_segments = pre.bad_segments

\* C24: building an editor never ends in an exception of find_peaks: when
\* the detector fails, or the signal type has no detector, the failure is
\* reported and the editor is built with no peaks vector.
C24_DetectorFailureReported ==
    last.op = "Editor" =>
        /\ last.result \notin {"ValueError", "DetectorError"}
        /\ last.type \notin SignalTypes =>
              (peaks = NonePeaks /\ signal_type = last.type)

\* C25: an editor built through the Viewer with no prior record, or from a
\* record whose bad_segments is null, has an empty list of bad segments, and
\* in Rejection mode the primary gesture over a range tmin < tmax then
\* succeeds and leaves exactly the segment [tmin, tmax), as it does on an
\* editor built directly.
C25_MarkAfterConstruction ==
    (Did("on_remove", "Rejection") /\ Tmin < Tmax
        /\ pre.bad_segments \in {<< >>, NoneSegments}) =>
        /\ pre.bad_segments = << >>
        /\ last.result = "ok"
        /\ bad_segments = << Tmin, Tmax >>

\* C26: a save by an editor that has no peaks vector (the signal was absent
\* or all NaN) neither creates nor changes the block of its signal type in
\* the document: a block that was there keeps its corrected_peaks.
C26_NoSaveWithoutPeaks ==
    (last.op = "save" /\ peaks = NonePeaks) =>
        IF HasRecord(pre.document, signal_type)
        THEN /\ HasRecord(document, signal_type)
             /\ document.blocks[lower(signal_type)]
                  = pre.document.blocks[lower(signal_type)]
        ELSE ~HasRecord(document, signal_type)

====
